---- MODULE Spec2Model ----
(***************************************************************************)
(* Verification model of the triangle-free graph search tools:             *)
(*   - the backtracking enumerator and the Psi_k checker                   *)
(*     (find_triangle_free.py),                                            *)
(*   - the Corollary 4 filter (Exploratory/Nauty/generate_with_nauty.py),  *)
(*   - the slice orchestrator (Optimized C code/run_manager.py) on top of  *)
(*     a multiprocessing.Pool and generate_custom_graphs.                  *)
(* Each component has its own specification (Spec, SpecPsi, SpecCor4,      *)
(* SpecOrch, FairSpecOrch), and so have the reference graph construction  *)
(* (SpecRef) and the sequential driver generate_with_nauty.main (SpecSeq); *)
(* the variables of the other components stay at their idle values.        *)
(***************************************************************************)
EXTENDS Integers, Sequences, FiniteSets, TLC

\* ---- bounds of the model ----
MaxN == 4          \* largest target order given to the enumerator
MaxOrderPsi == 5   \* largest order of a graph given to check_properties
MaxK == 2          \* largest k given to check_properties
MaxOrderCor == 5   \* largest order of a graph given to check_corollary_4_properties
MaxMod == 2        \* largest modulus (number of slices)
MaxOrderGen == 6   \* largest order given to the sequential driver
MaxLines == 2      \* most lines read from one geng process
MaxKept == 2       \* yielded graphs a caller of the enumerator keeps
MaxJobs == 2       \* largest pool size
MaxRefOrder == 8   \* largest order for which the reference graph is built
NumCands == 2      \* candidates in the external generator's whole search space

VARIABLES
    \* enumerator (find_triangle_free.py)
    target_size,   \* N, the argument of generate_triangle_free_graphs
    heap,          \* the nx.Graph objects allocated so far, by identity
    stack,         \* the suspended _recursive_build generator frames
    yielded,       \* identities of the graphs yielded so far, in order
    mutated,       \* identity of the yielded graph a caller has changed, or 0
    epc,           \* "run" while the generator is live, "done" once exhausted
    \* Psi_k checker
    pG, pK, pRes, ppc,
    pErr,          \* the exception check_properties raised, or "none"
    \* Corollary 4 filter
    cG, cRes, cpc,
    \* slice orchestrator (run_manager.py)
    mod,           \* number of slices
    jobs,          \* pool size
    cls,           \* the generator's residue class of each candidate
    accepted,      \* the candidates the filter lets through
    tasks,         \* the task list handed to imap_unordered
    taskq,         \* the pool's queue of tasks no worker has taken yet
    running,       \* the residues the pool's workers are running (one each)
    tstate,        \* per residue: Dispatched, Running, Completed, Failed, Abandoned
    outcome,       \* per residue: how generate_custom_graphs ended
    ran,           \* per residue: how many workers started it
    resultq,       \* results sent back and not yet iterated over
    completed, all_graphs, stats,
    failed,        \* the "[Slice r/m] FAILED: ..." lines printed
    collected,     \* the results the for loop has consumed, in order
    opc,           \* "collect", "report", "done"
    report,        \* the lines printed after the loop
    \* reference (Andrasfai) graph construction
    rN, rU, rV,    \* an order and two of its vertices
    rFwd, rBwd,    \* the edge rule applied to (u, v) and to (v, u)
    rA,            \* the graph A built for order rN
    rpc,
    \* sequential driver (generate_with_nauty.py)
    sN,            \* the order argument N
    geng_available,
    modulus_input, \* the number typed at the modulus prompt
    modulus, sres, \* the number of slices and the loop variable res
    cmds,          \* the geng invocations made so far
    fed,           \* the lines geng has written in the current slice
    sgraphs,       \* the list graphs that generate_graphs is filling
    warnings,      \* "Failed to parse graph6 line" messages of the slice
    returncode,    \* process.returncode of the slice's geng, or "none"
    slice_graphs,  \* what generate_graphs returned to main
    total_valid_graphs,
    spc, exit_status

enumVars == <<target_size, heap, stack, yielded, mutated, epc>>
psiVars  == <<pG, pK, pRes, ppc, pErr>>
corVars  == <<cG, cRes, cpc>>
orchVars == <<mod, jobs, cls, accepted, tasks, taskq, running, tstate, outcome, ran,
              resultq, completed, all_graphs, stats, failed, collected, opc, report>>
refVars == <<rN, rU, rV, rFwd, rBwd, rA, rpc>>
seqVars == <<sN, geng_available, modulus_input, modulus, sres, cmds, fed, sgraphs,
             warnings, returncode, slice_graphs, total_valid_graphs, spc, exit_status>>
vars == <<enumVars, psiVars, corVars, orchVars, refVars, seqVars>>

\* ======================================================================
\* Graph model: an nx.Graph is its insertion-ordered node list and its
\* set of undirected edges {u, v}.
\* ======================================================================
EmptyGraph == [nodes |-> <<>>, edges |-> {}]

Range(s) == {s[i] : i \in 1..Len(s)}

number_of_nodes(G) == Len(G.nodes)

has_edge(G, u, v) == {u, v} \in G.edges

neighbors(G, z) == {u \in Range(G.nodes) : {z, u} \in G.edges}

add_node(G, v) ==
    IF v \in Range(G.nodes) THEN G
    ELSE [G EXCEPT !.nodes = Append(@, v)]

add_edge(G, u, v) ==
    [add_node(add_node(G, u), v) EXCEPT !.edges = @ \cup {{u, v}}]

\* itertools.combinations(s, r): the r-tuples of s in lexicographic order
RECURSIVE combinations(_, _)
combinations(s, r) ==
    IF r = 0 THEN << <<>> >>
    ELSE IF Len(s) < r THEN <<>>
    ELSE LET with    == combinations(Tail(s), r - 1)
             without == combinations(Tail(s), r)
         IN  [i \in 1..Len(with) |-> <<Head(s)>> \o with[i]] \o without

is_independent_set_noop(G, nodes) == TRUE

is_independent_set(G, nodes) ==
    \A i, j \in 1..Len(nodes) :
        i < j => ~has_edge(G, nodes[i], nodes[j])

\* ======================================================================
\* Backtracking enumerator
\* ======================================================================
\* for r in range(len(nodes) + 1): for neighbors in combinations(nodes, r)
RECURSIVE SubsetsFrom(_, _)
SubsetsFrom(nodes, r) ==
    IF r > Len(nodes) THEN <<>>
    ELSE combinations(nodes, r) \o SubsetsFrom(nodes, r + 1)

extension_candidates_nonempty(nodes) == SubsetsFrom(nodes, 1)

extension_candidates(nodes) == SubsetsFrom(nodes, 0)

RECURSIVE add_edges(_, _, _)
add_edges(G, new_node, nbrs) ==
    IF nbrs = <<>> THEN G
    ELSE add_edges(add_edge(G, new_node, Head(nbrs)), new_node, Tail(nbrs))

\* G_new = G.copy(); G_new.add_node(new_node); add_edge for each neighbor
G_new(G, new_node, nbrs) == add_edges(add_node(G, new_node), new_node, nbrs)

heap_after_extend_in_place(h, g, new_node, nbrs) ==
    Append([h EXCEPT ![g] = G_new(h[g], new_node, nbrs)],
           G_new(h[g], new_node, nbrs))

\* G_new is a new object; the object G is left as it was
heap_after_extend(h, g, new_node, nbrs) ==
    Append(h, G_new(h[g], new_node, nbrs))

Top == stack[Len(stack)]
Pop == SubSeq(stack, 1, Len(stack) - 1)

EnumInit ==
    /\ target_size \in 1..MaxN
    /\ heap = << add_node(EmptyGraph, 0) >>
    /\ stack = << [g |-> 1, i |-> 1] >>
    /\ yielded = <<>>
    /\ mutated = 0
    /\ epc = "run"

EnumIdle ==
    /\ target_size = 0
    /\ heap = <<>>
    /\ stack = <<>>
    /\ yielded = <<>>
    /\ mutated = 0
    /\ epc = "idle"

\* if current_size == target_size: yield G; return
Yield ==
    /\ epc = "run" /\ stack # <<>>
    /\ number_of_nodes(heap[Top.g]) = target_size
    /\ yielded' = Append(yielded, Top.g)
    /\ stack' = Pop
    /\ UNCHANGED <<target_size, heap, epc, mutated>>
    /\ UNCHANGED <<psiVars, corVars, orchVars, refVars, seqVars>>

\* the next subset is independent: copy, extend, recurse
Extend ==
    /\ epc = "run" /\ stack # <<>>
    /\ LET G     == heap[Top.g]
           nodes == G.nodes
           cands == extension_candidates(nodes)
       IN  /\ number_of_nodes(G) # target_size
           /\ Top.i <= Len(cands)
           /\ is_independent_set(G, cands[Top.i])
           /\ heap' = heap_after_extend(heap, Top.g, number_of_nodes(G), cands[Top.i])
           /\ stack' = Append([stack EXCEPT ![Len(stack)].i = @ + 1],
                              [g |-> Len(heap) + 1, i |-> 1])
    /\ UNCHANGED <<target_size, yielded, epc, mutated>>
    /\ UNCHANGED <<psiVars, corVars, orchVars, refVars, seqVars>>

\* the next subset is not independent: no extension
Skip ==
    /\ epc = "run" /\ stack # <<>>
    /\ LET G     == heap[Top.g]
           cands == extension_candidates(G.nodes)
       IN  /\ number_of_nodes(G) # target_size
           /\ Top.i <= Len(cands)
           /\ ~is_independent_set(G, cands[Top.i])
           /\ stack' = [stack EXCEPT ![Len(stack)].i = @ + 1]
    /\ UNCHANGED <<target_size, heap, yielded, epc, mutated>>
    /\ UNCHANGED <<psiVars, corVars, orchVars, refVars, seqVars>>

\* both loops are exhausted: the frame returns
Return ==
    /\ epc = "run" /\ stack # <<>>
    /\ LET G == heap[Top.g]
       IN  /\ number_of_nodes(G) # target_size
           /\ Top.i > Len(extension_candidates(G.nodes))
    /\ stack' = Pop
    /\ UNCHANGED <<target_size, heap, yielded, epc, mutated>>
    /\ UNCHANGED <<psiVars, corVars, orchVars, refVars, seqVars>>

\* the outermost frame has returned: the generator is exhausted
Exhausted ==
    /\ epc = "run" /\ stack = <<>>
    /\ epc' = "done"
    /\ UNCHANGED <<target_size, heap, stack, yielded, mutated>>
    /\ UNCHANGED <<psiVars, corVars, orchVars, refVars, seqVars>>

\* "yield G" hands out the object itself: a caller that kept the first
\* MaxKept yielded graphs changes one of them (here G.add_edge(0, N)), once
\* in a run
ConsumerMutate ==
    /\ epc \in {"run", "done"}
    /\ mutated = 0
    /\ \E i \in 1..Len(yielded) :
          /\ i <= MaxKept
          /\ heap' = [heap EXCEPT ![yielded[i]] = add_edge(@, 0, target_size)]
          /\ mutated' = yielded[i]
    /\ UNCHANGED <<target_size, stack, yielded, epc>>
    /\ UNCHANGED <<psiVars, corVars, orchVars, refVars, seqVars>>

\* ======================================================================
\* Inputs of the predicates: the graphs on nodes 0..n-1
\* ======================================================================
NodeList(n) == [i \in 1..n |-> i - 1]

Pairs(n) == {{u, v} : u, v \in 0..(n - 1)} \ {{u} : u \in 0..(n - 1)}

GraphsOfOrder(n) == {[nodes |-> NodeList(n), edges |-> E] : E \in SUBSET Pairs(n)}

GraphsUpTo(n) == UNION {GraphsOfOrder(j) : j \in 0..n}

\* ======================================================================
\* Psi_k checker: check_properties(G, n)
\* ======================================================================
Remove(s, S) == LET keep(x) == x \notin S IN SelectSeq(s, keep)

vacuously_true_below_witness(nodes, n) == Len(nodes) < 2 * n + 1

\* the early return: fewer than 2n nodes
vacuously_true(nodes, n) == Len(nodes) < 2 * n + 1 /\ Len(nodes) < 2 * n

witness_candidates_any(remaining_nodes, Y_set) == remaining_nodes

\* candidates = [u for u in remaining_nodes if u not in Y_set]
witness_candidates(remaining_nodes, Y_set) == Remove(remaining_nodes, Y_set)

\* the scan for z: witness_found after the inner loop
witness_found(G, X_set, Y_set, candidates) ==
    \E i \in 1..Len(candidates) :
        /\ X_set \subseteq neighbors(G, candidates[i])
        /\ Y_set \cap neighbors(G, candidates[i]) = {}

check_properties(G, n) ==
    LET nodes == G.nodes
        Xs    == combinations(nodes, n)
    IN  IF vacuously_true(nodes, n) THEN TRUE
        ELSE \A xi \in 1..Len(Xs) :
                is_independent_set(G, Xs[xi]) =>
                    LET X_set           == Range(Xs[xi])
                        remaining_nodes == Remove(nodes, X_set)
                        Ys              == combinations(remaining_nodes, n)
                    IN  \A yi \in 1..Len(Ys) :
                            witness_found(G, X_set, Range(Ys[yi]),
                                witness_candidates(remaining_nodes, Range(Ys[yi])))

PsiInit ==
    /\ pG \in GraphsUpTo(MaxOrderPsi)
    /\ pK \in 1..MaxK
    /\ pRes = FALSE
    /\ pErr = "none"
    /\ ppc = "start"

\* a caller that passes any k, also k = 0 and k < 0
PsiInitAnyK ==
    /\ pG \in GraphsUpTo(MaxOrderPsi)
    /\ pK \in (-1)..MaxK
    /\ pRes = FALSE
    /\ pErr = "none"
    /\ ppc = "start"

\* the call check_properties(G, k): there is no check of k; for k < 0
\* itertools.combinations(nodes, k) raises ValueError, any other k runs
CheckProperties ==
    /\ ppc = "start"
    /\ IF pK < 0
       THEN pErr' = "ValueError" /\ pRes' = pRes
       ELSE pErr' = pErr /\ pRes' = check_properties(pG, pK)
    /\ ppc' = "done"
    /\ UNCHANGED <<pG, pK>>
    /\ UNCHANGED <<enumVars, corVars, orchVars, refVars, seqVars>>

\* ======================================================================
\* Corollary 4 filter: check_corollary_4_properties(G)
\* ======================================================================
\* for k in range(1, 4): for subset in itertools.combinations(nodes, k)
RECURSIVE small_subsets(_, _)
small_subsets(nodes, k) ==
    IF k >= 4 THEN <<>>
    ELSE combinations(nodes, k) \o small_subsets(nodes, k + 1)

common_neighbors_first_only(G, subset) == neighbors(G, subset[1])

\* common_neighbors = N(subset[0]); for node in subset[1:]: common &= N(node)
RECURSIVE common_neighbors(_, _)
common_neighbors(G, subset) ==
    IF Len(subset) = 1 THEN neighbors(G, subset[1])
    ELSE common_neighbors(G, SubSeq(subset, 1, Len(subset) - 1))
            \cap neighbors(G, subset[Len(subset)])

\* Property 1 returns False
common_neighbor_step_rejects(G) ==
    LET subsets == small_subsets(G.nodes, 1)
    IN  \E i \in 1..Len(subsets) :
            /\ is_independent_set(G, subsets[i])
            /\ subsets[i] # <<>>
            /\ common_neighbors(G, subsets[i]) = {}

twin_step_rejects_adjacent_only(G) ==
    \E i \in 1..Len(G.nodes) :
        /\ i + 1 <= Len(G.nodes)
        /\ neighbors(G, G.nodes[i]) = neighbors(G, G.nodes[i + 1])

\* Property 2 returns False
twin_step_rejects(G) ==
    \E i \in 1..Len(G.nodes) :
        \E j \in (i + 1)..Len(G.nodes) :
            neighbors(G, G.nodes[i]) = neighbors(G, G.nodes[j])

is_reference_order_multiple_of_3(N) == N % 3 = 0

\* if (N + 1) % 3 == 0
is_reference_order(N) == (N + 1) % 3 = 0

reference_edge_residue_2(u, v, N) == ((v - u) % N) % 3 = 2

\* diff = (v - u) % N; if diff % 3 == 1
reference_edge(u, v, N) == ((v - u) % N) % 3 = 1

\* the Andrasfai graph A built by the double loop over u < v
andrasfai(N) ==
    [nodes |-> NodeList(N),
     edges |-> {e \in Pairs(N) : \E u, v \in e : u < v /\ reference_edge(u, v, N)}]

\* nx.is_isomorphic(G, A): an adjacency-preserving bijection of the node sets
is_isomorphic(G, A) ==
    /\ Len(G.nodes) = Len(A.nodes)
    /\ Cardinality(G.edges) = Cardinality(A.edges)
    /\ \E f \in [Range(G.nodes) -> Range(A.nodes)] :
          /\ \A u, v \in Range(G.nodes) : u # v => f[u] # f[v]
          /\ \A u, v \in Range(G.nodes) :
                u # v => ({u, v} \in G.edges <=> {f[u], f[v]} \in A.edges)

\* Property 3 returns False
reference_step_rejects(G) ==
    LET N == number_of_nodes(G)
    IN  is_reference_order(N) /\ is_isomorphic(G, andrasfai(N))

CorInit ==
    /\ cG \in GraphsUpTo(MaxOrderCor)
    /\ cRes = "none"
    /\ cpc = "common_neighbor"

CommonNeighborStep ==
    /\ cpc = "common_neighbor"
    /\ IF common_neighbor_step_rejects(cG)
       THEN cRes' = "no_common_neighbor" /\ cpc' = "done"
       ELSE cRes' = cRes /\ cpc' = "twin_free"
    /\ UNCHANGED cG
    /\ UNCHANGED <<enumVars, psiVars, orchVars, refVars, seqVars>>

TwinFreeStep ==
    /\ cpc = "twin_free"
    /\ IF twin_step_rejects(cG)
       THEN cRes' = "twins" /\ cpc' = "done"
       ELSE cRes' = cRes /\ cpc' = "reference"
    /\ UNCHANGED cG
    /\ UNCHANGED <<enumVars, psiVars, orchVars, refVars, seqVars>>

ReferenceStep ==
    /\ cpc = "reference"
    /\ cRes' = IF reference_step_rejects(cG) THEN "isomorphic" ELSE "accept"
    /\ cpc' = "done"
    /\ UNCHANGED cG
    /\ UNCHANGED <<enumVars, psiVars, orchVars, refVars, seqVars>>

\* the boolean returned by check_corollary_4_properties
CorReturned == cRes = "accept"

\* ======================================================================
\* Slice orchestrator: run_manager.main over multiprocessing.Pool, with
\* worker_task around generate_custom_graphs
\* ======================================================================
Residues == 0..(mod - 1)

\* the candidates in generator order
Candidates == [c \in 1..NumCands |-> c]

\* what the pipeline "geng res/mod | custom_filter" prints when it runs to
\* the end: the accepted candidates of residue class res
pipeline_output(classOf, res) ==
    LET keep(c) == classOf[c] = res /\ c \in accepted
    IN  SelectSeq(Candidates, keep)

\* tasks = [(n, r, mod, min_deg, max_deg) for r in range(mod)]
prepare_tasks(m) == [i \in 1..m |-> [res |-> i - 1, mod |-> m]]

\* return (res, len(graphs), elapsed, graphs)
completed_result(res, graphs) ==
    [res |-> res, count |-> Len(graphs), elapsed |-> 1,
     result_data |-> [is_str |-> FALSE, text |-> "", items |-> graphs]]

failed_result_as_empty_list(res, e) ==
    [res |-> res, count |-> 0, elapsed |-> 0,
     result_data |-> [is_str |-> FALSE, text |-> "", items |-> <<>>]]

\* except Exception as e: return (res, 0, 0, str(e))
failed_result(res, e) ==
    [res |-> res, count |-> 0, elapsed |-> 0,
     result_data |-> [is_str |-> TRUE, text |-> e, items |-> <<>>]]

OrchInit ==
    /\ mod \in 1..MaxMod
    /\ jobs \in 1..MaxJobs
    /\ cls \in [1..NumCands -> 0..(mod - 1)]
    /\ accepted \in SUBSET (1..NumCands)
    /\ tasks = prepare_tasks(mod)
    /\ taskq = prepare_tasks(mod)
    /\ running = {}
    /\ tstate = [r \in 0..(mod - 1) |-> "Dispatched"]
    /\ outcome = [r \in 0..(mod - 1) |-> "none"]
    /\ ran = [r \in 0..(mod - 1) |-> 0]
    /\ resultq = <<>>
    /\ completed = 0
    /\ all_graphs = <<>>
    /\ stats = <<>>
    /\ failed = <<>>
    /\ collected = <<>>
    /\ opc = "collect"
    /\ report = <<>>

\* a free pool worker takes the next task off the pool's task queue
WorkerStart ==
    /\ Cardinality(running) < jobs /\ taskq # <<>>
    /\ LET r == Head(taskq).res
       IN  /\ running' = running \cup {r}
           /\ tstate' = [tstate EXCEPT ![r] = "Running"]
           /\ ran' = [ran EXCEPT ![r] = @ + 1]
    /\ taskq' = Tail(taskq)
    /\ UNCHANGED <<mod, jobs, cls, accepted, tasks, outcome, resultq,
                   completed, all_graphs, stats, failed, collected, opc, report>>
    /\ UNCHANGED <<enumVars, psiVars, corVars, refVars, seqVars>>

\* generate_custom_graphs returns a list: the whole output when the pipeline
\* ran to the end ("ok"); [] when the try block caught an exception, or the
\* lines read before the generator died ("cut")
WorkerReturn(r) ==
    /\ r \in running
    /\ LET full == pipeline_output(cls, r)
       IN  \E j \in 0..Len(full), how \in {"ok", "cut"} :
              /\ (how = "ok" => j = Len(full))
              /\ outcome' = [outcome EXCEPT ![r] = how]
              /\ resultq' = Append(resultq, completed_result(r, SubSeq(full, 1, j)))
              /\ tstate' = [tstate EXCEPT ![r] = "Completed"]
    /\ running' = running \ {r}
    /\ UNCHANGED <<mod, jobs, cls, accepted, tasks, taskq, ran,
                   completed, all_graphs, stats, failed, collected, opc, report>>
    /\ UNCHANGED <<enumVars, psiVars, corVars, refVars, seqVars>>

\* generate_custom_graphs raises an Exception outside its own try block
\* (compile_filter: gcc or custom_filter.c missing); worker_task catches it
WorkerRaise(r) ==
    /\ r \in running
    /\ outcome' = [outcome EXCEPT ![r] = "raised"]
    /\ resultq' = Append(resultq, failed_result(r, "No such file or directory"))
    /\ tstate' = [tstate EXCEPT ![r] = "Failed"]
    /\ running' = running \ {r}
    /\ UNCHANGED <<mod, jobs, cls, accepted, tasks, taskq, ran,
                   completed, all_graphs, stats, failed, collected, opc, report>>
    /\ UNCHANGED <<enumVars, psiVars, corVars, refVars, seqVars>>

\* compile_filter calls sys.exit(1): SystemExit is not an Exception, passes
\* worker_task's handler and the pool's, and ends the worker process; the
\* pool starts a fresh worker and sends no result for the task
WorkerExit(r) ==
    /\ r \in running
    /\ outcome' = [outcome EXCEPT ![r] = "exited"]
    /\ tstate' = [tstate EXCEPT ![r] = "Abandoned"]
    /\ running' = running \ {r}
    /\ UNCHANGED <<mod, jobs, cls, accepted, tasks, taskq, ran, resultq,
                   completed, all_graphs, stats, failed, collected, opc, report>>
    /\ UNCHANGED <<enumVars, psiVars, corVars, refVars, seqVars>>

remaining_results_peek(q) == q

\* the iterator hands each result over once
remaining_results(q) == Tail(q)

all_graphs_replaced(graphs, result) ==
    IF result.result_data.is_str THEN graphs ELSE result.result_data.items

\* all_graphs.extend(result_data) in the else branch
all_graphs_after(graphs, result) ==
    IF result.result_data.is_str THEN graphs
    ELSE graphs \o result.result_data.items

stats_after_unconditional(st, result) ==
    Append(st, <<result.res, result.count, result.elapsed>>)

\* stats.append((res, count, elapsed)) in the else branch
stats_after(st, result) ==
    IF result.result_data.is_str THEN st
    ELSE Append(st, <<result.res, result.count, result.elapsed>>)

\* print(f"[Slice {res}/{mod}] FAILED: {result_data}")
failed_after(log, result) ==
    IF result.result_data.is_str
    THEN Append(log, [res |-> result.res, text |-> result.result_data.text])
    ELSE log

\* one iteration of: for res, count, elapsed, result_data in imap_unordered
Collect ==
    /\ opc = "collect" /\ resultq # <<>>
    /\ LET result == Head(resultq)
       IN  /\ completed' = completed + 1
           /\ all_graphs' = all_graphs_after(all_graphs, result)
           /\ stats' = stats_after(stats, result)
           /\ failed' = failed_after(failed, result)
           /\ collected' = Append(collected, result)
    /\ resultq' = remaining_results(resultq)
    /\ UNCHANGED <<mod, jobs, cls, accepted, tasks, taskq, running, tstate,
                   outcome, ran, opc, report>>
    /\ UNCHANGED <<enumVars, psiVars, corVars, refVars, seqVars>>

\* the iterator has delivered len(tasks) results: the for loop ends and the
\* with block closes the pool
LoopEnd ==
    /\ opc = "collect" /\ completed = Len(tasks)
    /\ opc' = "report"
    /\ UNCHANGED <<mod, jobs, cls, accepted, tasks, taskq, running, tstate, outcome,
                   ran, resultq, completed, all_graphs, stats, failed, collected, report>>
    /\ UNCHANGED <<enumVars, psiVars, corVars, refVars, seqVars>>

\* stats.sort(key=lambda x: x[0]): stable, by residue
RECURSIVE sort_by_res(_)
sort_by_res(st) ==
    IF Len(st) <= 1 THEN st
    ELSE LET lo(x) == x[1] < st[1][1]
             hi(x) == x[1] >= st[1][1]
         IN  sort_by_res(SelectSeq(Tail(st), lo)) \o <<st[1]>>
                \o sort_by_res(SelectSeq(Tail(st), hi))

\* the lines printed from "GENERATION COMPLETE" on, for the merged list,
\* the sorted statistics and the outcome of writing the output file
final_report(graphs, st, written) ==
    << [kind |-> "GENERATION COMPLETE", n |-> 0],
       [kind |-> "Total graphs found", n |-> Len(graphs)] >>
    \o (IF st # <<>>
        THEN << [kind |-> "Average/Max/Min time per slice", n |-> Len(st)] >>
        ELSE <<>>)
    \o (IF graphs # <<>>
        THEN << [kind |-> "Writing graphs", n |-> Len(graphs)],
                [kind |-> IF written THEN "Done." ELSE "Error writing to file", n |-> 0] >>
        ELSE << [kind |-> "No graphs found. File not created.", n |-> 0] >>)

\* the GENERATION COMPLETE report
Report ==
    /\ opc = "report"
    /\ stats' = sort_by_res(stats)
    /\ \E written \in BOOLEAN :
          /\ (all_graphs = <<>> => written)
          /\ report' = final_report(all_graphs, sort_by_res(stats), written)
    /\ opc' = "done"
    /\ UNCHANGED <<mod, jobs, cls, accepted, tasks, taskq, running, tstate, outcome,
                   ran, resultq, completed, all_graphs, failed, collected>>
    /\ UNCHANGED <<enumVars, psiVars, corVars, refVars, seqVars>>

\* ======================================================================
\* Reference graph construction on its own: the edge rule of
\* check_corollary_4_properties applied to a pair in both orders, and the
\* graph the double loop builds
\* ======================================================================
RefInit ==
    /\ rN \in 1..MaxRefOrder
    /\ rU \in 0..(rN - 1)
    /\ rV \in 0..(rN - 1)
    /\ rFwd = FALSE /\ rBwd = FALSE
    /\ rA = EmptyGraph
    /\ rpc = "start"

RefIdle ==
    /\ rN = 0 /\ rU = 0 /\ rV = 0 /\ rFwd = FALSE /\ rBwd = FALSE
    /\ rA = EmptyGraph /\ rpc = "idle"

BuildReference ==
    /\ rpc = "start"
    /\ rFwd' = reference_edge(rU, rV, rN)
    /\ rBwd' = reference_edge(rV, rU, rN)
    /\ rA' = andrasfai(rN)
    /\ rpc' = "done"
    /\ UNCHANGED <<rN, rU, rV>>
    /\ UNCHANGED <<enumVars, psiVars, corVars, orchVars, seqVars>>

\* ======================================================================
\* Sequential driver: generate_with_nauty.main and generate_graphs, reading
\* the graph6 lines of one geng process per slice
\* ======================================================================
\* nedges_min, nedges_max of generate_graphs
edge_range(n) ==
    [nedges_min |-> 3 * n - 15,
     nedges_max |-> (((n - 1) * (n - 1)) \div 4) + 1]

\* nedges_min, nedges_max of generate_custom_graphs
edge_range_custom(n) ==
    [nedges_min |-> IF 3 * n - 15 < 0 THEN 0 ELSE 3 * n - 15,
     nedges_max |-> (((n - 1) * (n - 1)) \div 4) + 1]

\* cmd = ["geng", "-Ctqd4D9", str(n), f"{nedges_min}:{nedges_max}", f"{res}/{mod}"]
geng_cmd(n, res, m) ==
    [n |-> n, nedges_min |-> edge_range(n).nedges_min,
     nedges_max |-> edge_range(n).nedges_max, res |-> res, mod |-> m]

\* the lines a geng process may write, as bytes: "\n", "?\n" (order 0),
\* "A_\n" (K2), " @\n" (order 1 after a blank), "A\n" (data missing),
\* "A\x7f\n" (byte outside graph6), "A\xff\n" (not UTF-8)
Lines ==
    { <<10>>, <<63, 10>>, <<65, 95, 10>>, <<32, 64, 10>>, <<65, 10>>,
      <<65, 127, 10>>, <<65, 255, 10>> }

\* the pipe is read in text mode (UTF-8, strict): a byte that starts no
\* well-formed sequence raises UnicodeDecodeError in "for line in
\* process.stdout"; the lines above hold no multi-byte sequence
text_decodable(line) == \A i \in 1..Len(line) : line[i] < 128

\* the ASCII characters str.strip() removes
Whitespace == {9, 10, 11, 12, 13, 28, 29, 30, 31, 32}

RECURSIVE lstrip(_)
lstrip(line) ==
    IF line # <<>> /\ Head(line) \in Whitespace THEN lstrip(Tail(line)) ELSE line

RECURSIVE rstrip(_)
rstrip(line) ==
    IF line # <<>> /\ line[Len(line)] \in Whitespace
    THEN rstrip(SubSeq(line, 1, Len(line) - 1))
    ELSE line

\* line.strip()
strip(line) == rstrip(lstrip(line))

\* (d >> p) & 1
bit(d, p) == (d \div (2 ^ p)) % 2

\* the bit of the pair (i, j), i < j, in the order
\* ((i, j) for j in range(1, n) for i in range(j)), six bits per data byte
graph6_edge_bit(data, i, j) ==
    LET k == ((j * (j - 1)) \div 2) + i
    IN  bit(data[(k \div 6) + 1], 5 - (k % 6))

\* nx.from_graph6_bytes: ok is FALSE where it raises.  The forms of n that
\* start with byte 126 take 4 or 8 bytes, more than a line of the model has.
from_graph6_bytes(bytes_in) ==
    LET data == [i \in 1..Len(bytes_in) |-> bytes_in[i] - 63]
        n    == data[1]
        rest == Tail(data)
        nd   == (((n * (n - 1)) \div 2) + 5) \div 6
        fail == [ok |-> FALSE, G |-> EmptyGraph]
    IN  IF bytes_in = <<>> THEN fail
        ELSE IF \E i \in 1..Len(data) : data[i] > 63 THEN fail
        ELSE IF n > 62 THEN fail
        ELSE IF Len(rest) # nd THEN fail
        ELSE [ok |-> TRUE,
              G  |-> [nodes |-> NodeList(n),
                      edges |-> {e \in Pairs(n) :
                                   \E i, j \in e :
                                       i < j /\ graph6_edge_bit(rest, i, j) = 1}]]

\* one pass of the loop body of generate_graphs on a line of text
graphs_after_line(gs, line) ==
    LET tok == strip(line)
    IN  IF tok = <<>> THEN gs
        ELSE IF from_graph6_bytes(tok).ok THEN Append(gs, from_graph6_bytes(tok).G)
        ELSE gs

\* print("Failed to parse graph6 line ...")
warnings_after_line(w, line) ==
    LET tok == strip(line)
    IN  IF tok # <<>> /\ ~from_graph6_bytes(tok).ok THEN w + 1 ELSE w

\* the boolean check_corollary_4_properties returns
check_corollary_4_properties(G) ==
    /\ ~common_neighbor_step_rejects(G)
    /\ ~twin_step_rejects(G)
    /\ ~reference_step_rejects(G)

SeqInit ==
    /\ sN \in 1..MaxOrderGen
    /\ geng_available \in BOOLEAN
    /\ modulus_input \in 0..MaxMod
    /\ modulus = 0 /\ sres = 0
    /\ cmds = <<>> /\ fed = <<>> /\ sgraphs = <<>> /\ warnings = 0
    /\ returncode = "none" /\ slice_graphs = <<>>
    /\ total_valid_graphs = <<>>
    /\ spc = "start" /\ exit_status = "none"

SeqIdle ==
    /\ sN = 0 /\ geng_available = FALSE /\ modulus_input = 0
    /\ modulus = 0 /\ sres = 0
    /\ cmds = <<>> /\ fed = <<>> /\ sgraphs = <<>> /\ warnings = 0
    /\ returncode = "none" /\ slice_graphs = <<>>
    /\ total_valid_graphs = <<>>
    /\ spc = "idle" /\ exit_status = "none"

\* main up to the loop: sys.exit(1) without geng, else the modulus prompt
Startup ==
    /\ spc = "start"
    /\ IF ~geng_available
       THEN spc' = "exited" /\ exit_status' = "1" /\ modulus' = modulus
       ELSE /\ modulus' = (IF modulus_input <= 0 THEN 1 ELSE modulus_input)
            /\ spc' = "loop" /\ exit_status' = exit_status
    /\ UNCHANGED <<sN, geng_available, modulus_input, sres, cmds, fed, sgraphs,
                   warnings, returncode, slice_graphs, total_valid_graphs>>
    /\ UNCHANGED <<enumVars, psiVars, corVars, orchVars, refVars>>

\* for res in range(modulus): generate_graphs(N, res, modulus) up to Popen;
\* when Popen raises, generate_graphs returns []
StartSlice ==
    /\ spc = "loop" /\ sres < modulus
    /\ cmds' = Append(cmds, geng_cmd(sN, sres, modulus))
    /\ fed' = <<>> /\ sgraphs' = <<>> /\ warnings' = 0 /\ returncode' = "none"
    /\ slice_graphs' = <<>>
    /\ \E started \in BOOLEAN : spc' = (IF started THEN "read" ELSE "returned")
    /\ UNCHANGED <<sN, geng_available, modulus_input, modulus, sres,
                   total_valid_graphs, exit_status>>
    /\ UNCHANGED <<enumVars, psiVars, corVars, orchVars, refVars>>

\* one iteration of "for line in process.stdout"; a line the text layer
\* cannot decode raises outside the inner try, and generate_graphs returns []
ReadLine ==
    /\ spc = "read" /\ Len(fed) < MaxLines
    /\ \E line \in Lines :
          /\ fed' = Append(fed, line)
          /\ IF text_decodable(line)
             THEN /\ sgraphs' = graphs_after_line(sgraphs, line)
                  /\ warnings' = warnings_after_line(warnings, line)
                  /\ spc' = spc /\ slice_graphs' = slice_graphs
             ELSE /\ sgraphs' = sgraphs /\ warnings' = warnings
                  /\ spc' = "returned" /\ slice_graphs' = <<>>
    /\ UNCHANGED <<sN, geng_available, modulus_input, modulus, sres, cmds,
                   returncode, total_valid_graphs, exit_status>>
    /\ UNCHANGED <<enumVars, psiVars, corVars, orchVars, refVars>>

\* end of the stream: process.wait(), a non-zero return code is printed,
\* return graphs
EndOfStream ==
    /\ spc = "read"
    /\ \E rc \in {"zero", "nonzero"} : returncode' = rc
    /\ slice_graphs' = sgraphs
    /\ spc' = "returned"
    /\ UNCHANGED <<sN, geng_available, modulus_input, modulus, sres, cmds, fed,
                   sgraphs, warnings, total_valid_graphs, exit_status>>
    /\ UNCHANGED <<enumVars, psiVars, corVars, orchVars, refVars>>

\* the rest of the loop body: skip an empty slice, filter, extend the total
FilterSlice ==
    /\ spc = "returned"
    /\ total_valid_graphs' =
           total_valid_graphs \o SelectSeq(slice_graphs, check_corollary_4_properties)
    /\ sres' = sres + 1
    /\ spc' = "loop"
    /\ UNCHANGED <<sN, geng_available, modulus_input, modulus, cmds, fed, sgraphs,
                   warnings, returncode, slice_graphs, exit_status>>
    /\ UNCHANGED <<enumVars, psiVars, corVars, orchVars, refVars>>

\* "All slices complete": main returns, exit status 0
Finish ==
    /\ spc = "loop" /\ sres = modulus
    /\ spc' = "done" /\ exit_status' = "0"
    /\ UNCHANGED <<sN, geng_available, modulus_input, modulus, sres, cmds, fed,
                   sgraphs, warnings, returncode, slice_graphs, total_valid_graphs>>
    /\ UNCHANGED <<enumVars, psiVars, corVars, orchVars, refVars>>

\* ======================================================================
\* Idle values of the components not yet under study
\* ======================================================================
PsiIdle == pG = EmptyGraph /\ pK = 0 /\ pRes = FALSE /\ pErr = "none" /\ ppc = "idle"
CorIdle == cG = EmptyGraph /\ cRes = "none" /\ cpc = "idle"
OrchIdle ==
    /\ mod = 0 /\ jobs = 0 /\ cls = <<>> /\ accepted = {}
    /\ tasks = <<>> /\ taskq = <<>>
    /\ running = {} /\ tstate = <<>> /\ outcome = <<>> /\ ran = <<>>
    /\ resultq = <<>> /\ completed = 0 /\ all_graphs = <<>> /\ stats = <<>>
    /\ failed = <<>> /\ collected = <<>> /\ opc = "idle" /\ report = <<>>

Init == EnumInit /\ PsiIdle /\ CorIdle /\ OrchIdle /\ RefIdle /\ SeqIdle
Next == Yield \/ Extend \/ Skip \/ Return \/ Exhausted
Spec == Init /\ [][Next]_vars

InitPsi == EnumIdle /\ PsiInit /\ CorIdle /\ OrchIdle /\ RefIdle /\ SeqIdle
NextPsi == CheckProperties
SpecPsi == InitPsi /\ [][NextPsi]_vars

\* ======================================================================
\* Properties
\* ======================================================================
IsTriangleFree(G) ==
    \A a, b, c \in Range(G.nodes) :
        ~({a, b} \in G.edges /\ {b, c} \in G.edges /\ {a, c} \in G.edges
           /\ a # b /\ b # c /\ a # c)

LabeledTriangleFree(n) == {G \in GraphsOfOrder(n) : IsTriangleFree(G)}

YieldedGraphs == {heap[yielded[i]] : i \in 1..Len(yielded)}

\* C1: when generate_triangle_free_graphs(N) is exhausted it has yielded
\* every labeled triangle-free simple graph on 0..N-1 and nothing else, each
\* exactly once; for N = 4 that is 41 graphs.
C1_ExhaustiveDuplicateFree ==
    epc = "done" =>
        /\ YieldedGraphs = LabeledTriangleFree(target_size)
        /\ Len(yielded) = Cardinality(LabeledTriangleFree(target_size))
        /\ (target_size = 4 => Len(yielded) = 41)

C1_Witness == epc = "done" /\ target_size = 4 /\ Len(yielded) = 41

IndependentSet(G, S) == \A u, v \in S : u # v => {u, v} \notin G.edges

\* Psi_k as the mathematical statement over vertex sets
PsiHolds(G, k) ==
    LET V == Range(G.nodes)
    IN  \A X \in SUBSET V :
            (Cardinality(X) = k /\ IndependentSet(G, X)) =>
                \A Y \in SUBSET (V \ X) :
                    Cardinality(Y) = k =>
                        \E z \in V \ (X \cup Y) :
                            /\ \A x \in X : {z, x} \in G.edges
                            /\ \A y \in Y : {z, y} \notin G.edges

\* C2: on a graph with at least 2k+1 vertices check_properties(G, k) is true
\* iff every independent k-set X and every disjoint k-set Y have a vertex z
\* outside both, adjacent to all of X and to none of Y.
C2_PsiEquivalence ==
    (ppc = "done" /\ number_of_nodes(pG) >= 2 * pK + 1) =>
        (pRes <=> PsiHolds(pG, pK))

C2_Witness ==
    /\ ppc = "done" /\ number_of_nodes(pG) >= 2 * pK + 1
    /\ pRes = TRUE /\ PsiHolds(pG, pK) /\ pG.edges # {}

HasIndependentSetOfSize(G, k) ==
    \E X \in SUBSET Range(G.nodes) : Cardinality(X) = k /\ IndependentSet(G, X)

\* C3: with fewer than 2k vertices check_properties is true; with exactly 2k
\* vertices it is false iff G has an independent set of size k; for k = 1
\* every graph on fewer than 2 vertices gives true and every 2-vertex graph
\* gives false.
C3_SmallOrderPolicy ==
    ppc = "done" =>
        /\ (number_of_nodes(pG) < 2 * pK => pRes = TRUE)
        /\ (number_of_nodes(pG) = 2 * pK =>
                (pRes = FALSE <=> HasIndependentSetOfSize(pG, pK)))
        /\ ((pK = 1 /\ number_of_nodes(pG) = 2) => pRes = FALSE)

C3_Witness ==
    /\ ppc = "done" /\ pK = 2 /\ number_of_nodes(pG) = 4
    /\ pRes = FALSE /\ HasIndependentSetOfSize(pG, 2)

InitCor4 == EnumIdle /\ PsiIdle /\ CorInit /\ OrchIdle /\ RefIdle /\ SeqIdle
NextCor4 == CommonNeighborStep \/ TwinFreeStep \/ ReferenceStep
SpecCor4 == InitCor4 /\ [][NextCor4]_vars

CommonNeighbours(G, S) == {z \in Range(G.nodes) : \A x \in S : {z, x} \in G.edges}

SomeSmallIndependentSetWithoutCommonNeighbour(G) ==
    \E S \in SUBSET Range(G.nodes) :
        /\ Cardinality(S) >= 1 /\ Cardinality(S) <= 3
        /\ IndependentSet(G, S)
        /\ CommonNeighbours(G, S) = {}

IsolatedVertices(G) == {v \in Range(G.nodes) : \A u \in Range(G.nodes) : {u, v} \notin G.edges}

\* C4: the common-neighbour step rejects G iff some independent set S with
\* 1 <= |S| <= 3 has no common neighbour; a 4-vertex graph with two isolated
\* vertices is rejected by it.
C4_CommonNeighbourStep ==
    cpc \in {"twin_free", "reference", "done"} =>
        /\ (cRes = "no_common_neighbor"
               <=> SomeSmallIndependentSetWithoutCommonNeighbour(cG))
        /\ ((number_of_nodes(cG) = 4 /\ Cardinality(IsolatedVertices(cG)) >= 2)
               => cRes = "no_common_neighbor")

C4_Witness ==
    /\ cpc = "done" /\ cRes = "no_common_neighbor"
    /\ number_of_nodes(cG) = 4
    /\ \A v \in Range(cG.nodes) : neighbors(cG, v) # {}

HasTwins(G) ==
    \E u, v \in Range(G.nodes) :
        u # v /\ {w \in Range(G.nodes) : {u, w} \in G.edges}
                    = {w \in Range(G.nodes) : {v, w} \in G.edges}

\* C5: check_corollary_4_properties returns false for every graph with two
\* distinct vertices of identical neighbour sets, and the twin-freeness step
\* rejects only graphs that have such a pair.
C5_TwinFreeStep ==
    cpc = "done" =>
        /\ (HasTwins(cG) => ~CorReturned)
        /\ (cRes = "twins" => HasTwins(cG))

C5_Witness == cpc = "done" /\ cRes = "twins" /\ HasTwins(cG) /\ number_of_nodes(cG) = 4

\* the reference graph by the unordered rule of the specification
ReferenceGraph(N) ==
    [nodes |-> NodeList(N),
     edges |-> {e \in Pairs(N) : \E u, v \in e : u < v /\ ((v - u) % N) % 3 = 1}]

Isomorphic(G, H) ==
    /\ number_of_nodes(G) = number_of_nodes(H)
    /\ \E f \in Permutations(Range(G.nodes)) :
          {{f[u] : u \in e} : e \in G.edges} = H.edges

\* C6: a graph of order N that passed the first two steps is rejected iff
\* (N+1) mod 3 = 0 and it is isomorphic to the reference graph; the reference
\* graph itself is never accepted, and for (N+1) mod 3 # 0 the reference
\* step never rejects.
C6_ReferenceStep ==
    LET N == number_of_nodes(cG)
    IN  cpc = "done" =>
          /\ (cRes \notin {"no_common_neighbor", "twins"} =>
                (~CorReturned <=>
                    ((N + 1) % 3 = 0 /\ Isomorphic(cG, ReferenceGraph(N)))))
          /\ (((N + 1) % 3 = 0 /\ cG = ReferenceGraph(N)) => ~CorReturned)
          /\ ((N + 1) % 3 # 0 => cRes # "isomorphic")

C6_Witness ==
    /\ cpc = "done" /\ cRes = "isomorphic" /\ number_of_nodes(cG) = 5
    /\ cG # ReferenceGraph(5)

InitOrch == EnumIdle /\ PsiIdle /\ CorIdle /\ OrchInit /\ RefIdle /\ SeqIdle
NextOrch ==
    \/ WorkerStart
    \/ \E r \in Residues : WorkerReturn(r)
    \/ \E r \in Residues : WorkerRaise(r)
    \/ \E r \in Residues : WorkerExit(r)
    \/ Collect
    \/ LoopEnd
    \/ Report
SpecOrch == InitOrch /\ [][NextOrch]_vars
\* every process of the pool and the main process keep running
FairSpecOrch == SpecOrch /\ WF_vars(NextOrch)

ResultsOf(r, q) == {i \in 1..Len(q) : q[i].res = r}

AllResolved == \A r \in Residues : tstate[r] \in {"Completed", "Failed"}

\* C7: there is exactly one task per residue 0..m-1, no task is started by
\* more than one worker, and no result is consumed twice; once the loop has
\* ended every residue has been consumed exactly once.
C7_OneTaskPerResidue ==
    /\ Len(tasks) = mod
    /\ \A r \in Residues : Cardinality({i \in 1..Len(tasks) : tasks[i].res = r}) = 1
    /\ \A r \in Residues : ran[r] <= 1
    /\ \A r \in Residues :
          Cardinality(ResultsOf(r, collected)) + Cardinality(ResultsOf(r, resultq)) <= 1
    /\ (opc \in {"report", "done"} =>
          \A r \in Residues : Cardinality(ResultsOf(r, collected)) = 1)

C7_Witness ==
    /\ opc = "done" /\ mod = 2 /\ Len(collected) = 2
    /\ collected[1].res = 1 /\ collected[2].res = 0

RECURSIVE GraphsOfNonFailed(_)
GraphsOfNonFailed(q) ==
    IF q = <<>> THEN <<>>
    ELSE (IF Head(q).result_data.is_str THEN <<>> ELSE Head(q).result_data.items)
            \o GraphsOfNonFailed(Tail(q))

NonFailed(q) == {i \in 1..Len(q) : ~q[i].result_data.is_str}

\* C8: a slice whose worker raised an error has a Failed result carrying the
\* description; the orchestrator logs it, takes no graphs and no statistics
\* from it, and still collects and merges every other slice's result.
C8_FailureIsData ==
    /\ \A r \in Residues :
          outcome[r] = "raised" =>
              /\ tstate[r] = "Failed"
              /\ \E q \in {resultq, collected} : \E i \in ResultsOf(r, q) :
                    /\ q[i].result_data.is_str
                    /\ q[i].result_data.text # ""
                    /\ q[i].count = 0
    /\ all_graphs = GraphsOfNonFailed(collected)
    /\ {st[1] : st \in Range(stats)} = {collected[i].res : i \in NonFailed(collected)}
    /\ Len(stats) = Cardinality(NonFailed(collected))
    /\ {f.res : f \in Range(failed)} =
          {collected[i].res : i \in 1..Len(collected)} \ {st[1] : st \in Range(stats)}
    /\ (opc \in {"report", "done"} =>
          \A r \in Residues :
              /\ ResultsOf(r, collected) # {}
              /\ (outcome[r] = "raised" => r \in {f.res : f \in Range(failed)}))

C8_Witness ==
    /\ opc = "done" /\ mod >= 2
    /\ collected[1].result_data.is_str
    /\ outcome[collected[1].res] = "raised"
    /\ all_graphs # <<>>

\* C9: every dispatched task ends Completed or Failed, the report comes only
\* after all m tasks have resolved, and it does come.
C9_EveryTaskResolves ==
    /\ [](opc \in {"report", "done"} => AllResolved)
    /\ <>(opc = "done" /\ AllResolved)

\* the graphs a single run with modulus 1 accepts: one class holds everything
SingleClass == [c \in 1..NumCands |-> 0]
SingleRunGraphs == Range(pipeline_output(SingleClass, 0))

UnionOfNonFailed == UNION {Range(collected[i].result_data.items) : i \in NonFailed(collected)}

AllSlicesRanToTheEnd == \A r \in Residues : outcome[r] = "ok"

C16_PartialGraphsTriangleFree ==
    \A id \in 1..Len(heap) :
        LET G == heap[id]
            n == number_of_nodes(G)
        IN  /\ IsTriangleFree(G)
            /\ G.nodes = NodeList(n)
            /\ \A e \in G.edges : Cardinality(e) = 2 /\ e \subseteq 0..(n - 1)
            /\ IndependentSet([nodes |-> NodeList(n - 1),
                               edges |-> {e \in G.edges : (n - 1) \notin e}],
                              {u \in 0..(n - 2) : {u, n - 1} \in G.edges})

C16_Witness ==
    /\ target_size = 4
    /\ \E id \in 1..Len(heap) :
          /\ number_of_nodes(heap[id]) = 3
          /\ Cardinality(heap[id].edges) = 2
    /\ \E id \in 1..Len(heap) :
          /\ number_of_nodes(heap[id]) = 4
          /\ Cardinality(neighbors(heap[id], 3)) = 2

RECURSIVE SumOfCounts(_)
SumOfCounts(st) == IF st = <<>> THEN 0 ELSE Head(st)[2] + SumOfCounts(Tail(st))

\* C18: completed counts the results collected; stats has one
\* (residue, count, elapsed) entry per non-failed collected slice, with
\* distinct residues; the merged list is as long as the sum of those counts;
\* a failed slice adds to neither; after the loop completed = m.
C18_Accounting ==
    /\ completed = Len(collected)
    /\ Len(stats) = Cardinality(NonFailed(collected))
    /\ \A i, j \in 1..Len(stats) : i # j => stats[i][1] # stats[j][1]
    /\ Range(stats) = {<<collected[i].res, collected[i].count, collected[i].elapsed>> :
                          i \in NonFailed(collected)}
    /\ Len(all_graphs) = SumOfCounts(stats)
    /\ (opc \in {"report", "done"} => completed = mod)

C18_Witness ==
    /\ opc = "done" /\ mod = 2 /\ completed = 2
    /\ Len(failed) = 1 /\ Len(stats) = 1 /\ Len(all_graphs) >= 1

InitRef == EnumIdle /\ PsiIdle /\ CorIdle /\ OrchIdle /\ RefInit /\ SeqIdle
NextRef == BuildReference
SpecRef == InitRef /\ [][NextRef]_vars

\* C19: for (N+1) mod 3 = 0 and distinct u, v the edge rule gives the same
\* answer for (u, v) and (v, u), so the graph built from the pairs u < v is
\* the graph of the unordered rule, and it is triangle-free.
C19_ReferenceWellDefined ==
    (rpc = "done" /\ (rN + 1) % 3 = 0) =>
        /\ (rU # rV => (rFwd <=> rBwd))
        /\ rFwd = (((rV - rU) % rN) % 3 = 1)
        /\ rA.nodes = NodeList(rN)
        /\ rA.edges = {{u, v} : <<u, v>> \in
                          {p \in (0..(rN - 1)) \X (0..(rN - 1)) :
                              p[1] # p[2] /\ ((p[2] - p[1]) % rN) % 3 = 1}}
        /\ IsTriangleFree(rA)

C19_Witness ==
    /\ rpc = "done" /\ rN = 8 /\ rU = 6 /\ rV = 2
    /\ rFwd /\ rBwd /\ {2, 6} \in rA.edges

InitPsiAnyK == EnumIdle /\ PsiInitAnyK /\ CorIdle /\ OrchIdle /\ RefIdle /\ SeqIdle
SpecPsiAnyK == InitPsiAnyK /\ [][NextPsi]_vars

\* C14: check_properties called with k < 1 reports an error instead of
\* returning a boolean.
C14_OutOfRangeRejected ==
    (ppc = "done" /\ pK < 1) => pErr # "none"

\* C12: when F > 0 of the M slices failed, the final report says so (F failed
\* out of M), so a run whose slices all failed is not reported like a clean
\* run that found no graph.
C12_ReportStatesFailures ==
    (opc = "done" /\ Len(failed) > 0) =>
        \E i \in 1..Len(report) :
            /\ report[i].kind \notin {"GENERATION COMPLETE", "Total graphs found",
                                      "Average/Max/Min time per slice",
                                      "Writing graphs", "Done.",
                                      "Error writing to file",
                                      "No graphs found. File not created."}
            /\ report[i].n = Len(failed)

\* C11: a slice whose external generator crashed or could not be started is
\* not counted as an ordinary completed slice: once the run has ended, it is
\* among the failed slices.
C11_GeneratorFaultIsFailedSlice ==
    opc = "done" =>
        \A r \in DOMAIN outcome :
            outcome[r] = "cut" => \E i \in 1..Len(failed) : failed[i].res = r

InitSeq == EnumIdle /\ PsiIdle /\ CorIdle /\ OrchIdle /\ RefIdle /\ SeqInit
NextSeq == Startup \/ StartSlice \/ ReadLine \/ EndOfStream \/ FilterSlice \/ Finish
SpecSeq == InitSeq /\ [][NextSeq]_vars

\* the graphs of the lines that hold a token that decodes, in stream order
RECURSIVE DecodedBatch(_)
DecodedBatch(lines) ==
    IF lines = <<>> THEN <<>>
    ELSE LET tok  == strip(lines[Len(lines)])
             init == DecodedBatch(SubSeq(lines, 1, Len(lines) - 1))
         IN  IF tok # <<>> /\ from_graph6_bytes(tok).ok
             THEN Append(init, from_graph6_bytes(tok).G)
             ELSE init

\* C13: whatever lines the stream held, with any number of undecodable
\* tokens among them, the batch generate_graphs returns is exactly the
\* decoded graphs of the decodable non-empty tokens, in stream order.
C13_BatchIsDecodedTokens ==
    spc = "returned" => slice_graphs = DecodedBatch(fed)

\* C15: every geng invocation gets min = max(0, 3n - 15) and
\* max = floor((n-1)^2 / 4) + 1, the range generate_custom_graphs computes.
C15_EdgeRange ==
    \A i \in 1..Len(cmds) :
        /\ cmds[i].nedges_min = (IF 3 * sN - 15 > 0 THEN 3 * sN - 15 ELSE 0)
        /\ cmds[i].nedges_max = (((sN - 1) * (sN - 1)) \div 4) + 1
        /\ cmds[i].nedges_min >= 0
        /\ cmds[i].nedges_min = edge_range_custom(sN).nedges_min
        /\ cmds[i].nedges_max = edge_range_custom(sN).nedges_max

InitEnumConsumer == EnumInit /\ PsiIdle /\ CorIdle /\ OrchIdle /\ RefIdle /\ SeqIdle
NextEnumConsumer == Yield \/ Extend \/ Skip \/ Return \/ Exhausted \/ ConsumerMutate
SpecEnumConsumer == InitEnumConsumer /\ [][NextEnumConsumer]_vars

\* C17: a step of the enumerator changes no graph object that exists already
\* (an extension writes to a new copy only, so a parent is the same for all
\* its children, and a yielded graph is never touched again); no live frame
\* works on a yielded object; so a caller changing a yielded graph does not
\* change what the enumerator yields: at the end the count is right and every
\* yielded graph the caller left alone is as it was yielded.
C17_PrivateCopy ==
    [][ /\ Next => \A id \in 1..Len(heap) : heap'[id] = heap[id]
        /\ \A i \in 1..Len(stack') : stack'[i].g \notin Range(yielded')
        /\ epc' = "done" =>
              /\ Len(yielded') = Cardinality(LabeledTriangleFree(target_size))
              /\ \A i \in 1..Len(yielded') :
                    yielded'[i] # mutated' =>
                        /\ heap'[yielded'[i]].nodes = NodeList(target_size)
                        /\ IsTriangleFree(heap'[yielded'[i]])
      ]_vars

C17_Witness ==
    /\ epc = "done" /\ target_size = 3
    /\ mutated # 0 /\ number_of_nodes(heap[mutated]) = 4
    /\ \E a, b \in 1..Len(heap) :
          /\ a # b /\ heap[a] # heap[b]
          /\ number_of_nodes(heap[a]) = 3 /\ number_of_nodes(heap[b]) = 3
          /\ a # mutated /\ b # mutated
          /\ {e \in heap[a].edges : 2 \notin e} = {e \in heap[b].edges : 2 \notin e}

====
